---- MODULE Spec2Model ----
(***************************************************************************)
(* DispatchConversationManager (src/server.py): the client side of one     *)
(* voice exchange -- record, upload with one gateway retry, apply the      *)
(* pilot action, play the reply audio after a delay.                       *)
(*                                                                         *)
(* The class is @MainActor: its methods run one at a time and other work   *)
(* can run only while a method is suspended (URLSession.data, Task.sleep). *)
(* Every action below is therefore one whole segment of a method, from one *)
(* suspension point (or the call) to the next (or the return).             *)
(*                                                                         *)
(* Strings that the code inspects (notes, voices, replies) are sequences   *)
(* of one-character strings; volumes are Floats counted in tenths.         *)
(* Nothing in the repository cancels the task that runs an exchange, so    *)
(* Task.sleep returns normally.                                            *)
(*                                                                         *)
(* Specifications: the actions are the same in all of them, the responses  *)
(* the backend may give differ.                                            *)
(*   Spec          one action of every kind, every audio, every failure    *)
(*   SpecRetry     every status and failure, two replies                   *)
(*   SpecVolume    volume commands of any size, sign and type              *)
(*   SpecActions   replies with audio and a state-changing action          *)
(*   SpecPlayback  replies with either blob, with and without repeat_last  *)
(*   SpecFeedback  feedback notes and reply texts, empty, blank and padded *)
(*   SpecIgnored   unknown actions, help and malformed arguments           *)
(*   SpecBadAudio  replies whose audio_b64 is not base64                   *)
(*   SpecLive      few statuses, with the fairness that liveness needs     *)
(***************************************************************************)
EXTENDS Integers, Sequences, FiniteSets, TLC

\* ------------------------------------------------------------------ bounds
\* Recordings made in one behaviour; recording r is uploaded by exchange r.
MaxRecordings == 2
Tasks == 1..MaxRecordings

\* ---------------------------------------------------------------- constants
Nil == "nil"
\* 1.0 and 0.5 in tenths
VolOne == 10
VolInit == 5
\* nanoseconds are not modelled: the delays are kept in tenths of a second
RepeatDelay == 2
BackoffDelay == 15
replyPlaybackDelaySeconds == 30

Nova == <<"n", "o", "v", "a">>
Alloy == <<"a", "l", "l", "o", "y">>
Empty == <<>>

\* ------------------------------------------------------- AnyDecodable values
\* One decoded JSON value: the tag is the branch of init(from:) that took it.
BoolV(b) == [ty |-> "bool", b |-> b, n |-> 0, s |-> Empty]
IntV(n) == [ty |-> "int", b |-> FALSE, n |-> n, s |-> Empty]
DoubleV(n) == [ty |-> "double", b |-> FALSE, n |-> n, s |-> Empty]
StringV(s) == [ty |-> "string", b |-> FALSE, n |-> 0, s |-> s]
NullV == [ty |-> "null", b |-> FALSE, n |-> 0, s |-> Empty]
\* the key is missing from args (or args itself is missing)
Absent == [ty |-> "absent", b |-> FALSE, n |-> 0, s |-> Empty]

\* A PilotAction with at most one argument; NoAction is "action": null.
Act(name, key, val) == [name |-> name, key |-> key, val |-> val]
NoAction == Act(Nil, "", Absent)

Arg(action, key) == IF action.key = key THEN action.val ELSE Absent

\* argString / argBool / argFloat: "if let" succeeds iff Has..., and binds ...Of
HasString(action, key) == Arg(action, key).ty = "string"
StringOf(action, key) == Arg(action, key).s
HasBool(action, key) == Arg(action, key).ty = "bool"
BoolOf(action, key) == Arg(action, key).b
HasFloat(action, key) == Arg(action, key).ty \in {"double", "int"}
FloatOf(action, key) == Arg(action, key).n

\* ------------------------------------------------------------ pure helpers
Max(a, b) == IF a >= b THEN a ELSE b
Min(a, b) == IF a <= b THEN a ELSE b

\* as Clamp, without the lower bound
ClampUpperOnly(v) == Min(VolOne, v)

\* max(0.0, min(1.0, v)) in setMasterVolume
Clamp(v) == Max(0, Min(VolOne, v))

\* the didSet observer of pilotMasterVolume
DidSet(v) == Max(0, Min(VolOne, v))

IsSpace(c) == c \in {" ", "\n"}

RECURSIVE DropLeading(_)
DropLeading(s) ==
    IF s = Empty THEN Empty
    ELSE IF IsSpace(Head(s)) THEN DropLeading(Tail(s)) ELSE s

RECURSIVE DropTrailing(_)
DropTrailing(s) ==
    IF s = Empty THEN Empty
    ELSE IF IsSpace(s[Len(s)]) THEN DropTrailing(SubSeq(s, 1, Len(s) - 1)) ELSE s

\* trimmingCharacters(in: .whitespacesAndNewlines)
Trim(s) == DropTrailing(DropLeading(s))

\* Data(base64Encoded:): the bytes, or nil for a string that is not base64
Base64Decode(b64) ==
    CASE b64 = "QTE=" -> "A1"
      [] b64 = "QTI=" -> "A2"
      [] OTHER -> Nil

\* ------------------------------------------------------------------ errors
\* localizedDescription of what sendToBackend throws, as the parts of the text
ErrBusy == <<"Dispatch is busy. Try again in a moment.">>
ErrHTTP(code, bodyText) == <<"HTTP ", ToString(code), ": ", bodyText>>
ErrNoHTTP == <<"No HTTPURLResponse">>
ErrTransport == <<"The request timed out.">>
ErrFileRead == <<"file read error">>
ErrDecode == <<"JSON decoding error">>

DispatchError(desc) == <<"Dispatch error: ">> \o desc

\* ------------------------------------------------------------ HTTP exchange
\* What sendToBackend throws: NSError(domain, code, localizedDescription)
Err(code, desc) == [code |-> code, desc |-> desc]
NoErr == Err(0, Empty)

\* BackendResponse (the JSON envelope) and BackendResult
Envelope(tr, reply, b64, mime, action) ==
    [transcript |-> tr, reply |-> reply, audio_b64 |-> b64, audio_mime |-> mime,
     action |-> action]
NoEnvelope == Envelope(Empty, Empty, Nil, Nil, NoAction)

BackendResult(env) ==
    [transcript |-> env.transcript,
     reply |-> env.reply,
     audioData |-> IF env.audio_b64 # Nil THEN Base64Decode(env.audio_b64) ELSE Nil,
     audioMime |-> env.audio_mime,
     action |-> env.action]
NoResult == BackendResult(NoEnvelope)

\* One HTTP response: status, body as text, and the body as JSON when it decodes
Response(status, text, json, env) ==
    [status |-> status, text |-> text, json |-> json, env |-> env]

\* "data" of a response: the body
BodyOf(resp) == [text |-> resp.text, json |-> resp.json, env |-> resp.env]
NoBody == [text |-> "", json |-> FALSE, env |-> NoEnvelope]

\* as NeedsRetry, but every server error is retried
NeedsRetryAnyServerError(code) == code >= 500

\* [502, 503, 504].contains(http.statusCode)
NeedsRetry(code) == code \in {502, 503, 504}

\* as Evaluate, without the 429 branch
EvaluateBusyAsGeneric(resp) ==
    IF resp.status # 200
    THEN [ok |-> FALSE, err |-> Err(resp.status, ErrHTTP(resp.status, resp.text)),
          result |-> NoResult]
    ELSE IF ~resp.json
    THEN [ok |-> FALSE, err |-> Err(0, ErrDecode), result |-> NoResult]
    ELSE [ok |-> TRUE, err |-> NoErr, result |-> BackendResult(resp.env)]

\* sendToBackend after the last response: the error thrown, or the result
Evaluate(resp) ==
    IF resp.status = 429
    THEN [ok |-> FALSE, err |-> Err(429, ErrBusy), result |-> NoResult]
    ELSE IF resp.status # 200
    THEN [ok |-> FALSE, err |-> Err(resp.status, ErrHTTP(resp.status, resp.text)),
          result |-> NoResult]
    ELSE IF ~resp.json
    THEN [ok |-> FALSE, err |-> Err(0, ErrDecode), result |-> NoResult]
    ELSE [ok |-> TRUE, err |-> NoErr, result |-> BackendResult(resp.env)]

\* -------------------------------------------------------------------- state
VARIABLES
    isRecording, lastTranscript, lastReply, status,
    useServerTTS, selectedVoice,
    recorder,              \* 0 (nil) or the recording the recorder holds
    audioPlayer,           \* the AVAudioPlayer the manager references
    lastServerAudioData, lastServerAudioMime,
    pilotMasterVolume,
    mixerVolume,           \* AudioCueEngine.shared.masterVolume: <<>> until written
    feedbackFile,          \* the "note" of each line of feedback.jsonl
    nSounding,             \* AVAudioPlayer objects that are playing
    nextRec,               \* recordings made so far, plus one
    pc,                    \* where each stopRecordingAndSend is suspended
    request,               \* the URLRequest built by sendToBackend
    first,                 \* status of the first response (0: none yet)
    http,                  \* "http": status of the latest response (0: none yet)
    body,                  \* "data" of sendToBackend: the body of the latest response
    err,                   \* the error caught by stopRecordingAndSend
    result,                \* the BackendResult
    repeatData,            \* "data" bound by repeat_last before its delay
    delay,                 \* the Task.sleep an exchange is in, in tenths of a second
    log,                   \* what each exchange has done and printed so far, in order
    played                 \* the last reply audio whose playback started

shared == <<isRecording, lastTranscript, lastReply, status, useServerTTS,
            selectedVoice, recorder, audioPlayer, lastServerAudioData,
            lastServerAudioMime, pilotMasterVolume, mixerVolume, feedbackFile,
            nSounding, nextRec, played>>
locals == <<pc, request, first, http, body, err, result, repeatData, delay, log>>
vars == <<shared, locals>>

NoPlayer == [data |-> Nil, playing |-> FALSE]
NoRequest == [mode |-> Nil, voice |-> Empty, tts |-> Nil, audio |-> 0]

Init ==
    /\ isRecording = FALSE
    /\ lastTranscript = Empty
    /\ lastReply = Empty
    /\ status = <<"Ready">>
    /\ useServerTTS = TRUE
    /\ selectedVoice = Nova
    /\ recorder = 0
    /\ audioPlayer = NoPlayer
    /\ lastServerAudioData = Nil
    /\ lastServerAudioMime = Nil
    /\ pilotMasterVolume = VolInit
    /\ mixerVolume = <<>>
    /\ feedbackFile = <<>>
    /\ nSounding = 0
    /\ nextRec = 1
    /\ played = [data |-> Nil, mime |-> Nil]
    /\ pc = [t \in Tasks |-> "idle"]
    /\ request = [t \in Tasks |-> NoRequest]
    /\ first = [t \in Tasks |-> 0]
    /\ http = [t \in Tasks |-> 0]
    /\ body = [t \in Tasks |-> NoBody]
    /\ err = [t \in Tasks |-> NoErr]
    /\ result = [t \in Tasks |-> NoResult]
    /\ repeatData = [t \in Tasks |-> Nil]
    /\ delay = [t \in Tasks |-> 0]
    /\ log = [t \in Tasks |-> <<>>]

\* ---------------------------------------------------------------- recording
\* as StartRecording, but isRecording is set before the calls that can throw
StartRecordingFlagsFirst(micOk) ==
    /\ isRecording' = TRUE
    /\ IF micOk
       THEN /\ nextRec <= MaxRecordings
            /\ recorder' = nextRec
            /\ nextRec' = nextRec + 1
            /\ status' = <<"Recording...">>
       ELSE /\ status' = <<"Mic error: ", "...">>
            /\ UNCHANGED <<recorder, nextRec>>
    /\ UNCHANGED <<lastTranscript, lastReply, useServerTTS, selectedVoice,
                   audioPlayer, lastServerAudioData, lastServerAudioMime,
                   pilotMasterVolume, mixerVolume, feedbackFile, nSounding, played>>
    /\ UNCHANGED locals

\* startRecording(): micOk is whether the audio session and the recorder start
StartRecording(micOk) ==
    /\ IF micOk
       THEN /\ nextRec <= MaxRecordings
            /\ recorder' = nextRec
            /\ nextRec' = nextRec + 1
            /\ isRecording' = TRUE
            /\ status' = <<"Recording...">>
       ELSE /\ status' = <<"Mic error: ", "...">>
            /\ UNCHANGED <<recorder, nextRec, isRecording>>
    /\ UNCHANGED <<lastTranscript, lastReply, useServerTTS, selectedVoice,
                   audioPlayer, lastServerAudioData, lastServerAudioMime,
                   pilotMasterVolume, mixerVolume, feedbackFile, nSounding, played>>
    /\ UNCHANGED locals

\* as BuildRequest, but with the server's default voice and tts flag
BuildRequestDefaults(t) ==
    [mode |-> "pathlight_dispatch_v1",
     voice |-> Nova,
     tts |-> "1",
     audio |-> t]

\* sendToBackend up to its first request: the multipart fields and the file part
BuildRequest(t) ==
    [mode |-> "pathlight_dispatch_v1",
     voice |-> selectedVoice,
     tts |-> IF useServerTTS THEN "1" ELSE "0",
     audio |-> t]

\* as Failed, but the catch also clears the reply shown
FailedClearsReply(t, e, events) ==
    /\ status' = DispatchError(e.desc)
    /\ lastReply' = Empty
    /\ err' = [err EXCEPT ![t] = e]
    /\ pc' = [pc EXCEPT ![t] = "failed"]
    /\ delay' = [delay EXCEPT ![t] = 0]
    /\ log' = [log EXCEPT ![t] = log[t] \o events]
    /\ UNCHANGED <<lastTranscript, useServerTTS, selectedVoice,
                   lastServerAudioData, lastServerAudioMime, pilotMasterVolume,
                   mixerVolume, feedbackFile, result, repeatData>>

\* as Failed, but the catch goes on to call applyPilotAction
FailedStillApplies(t, e, events) ==
    /\ status' = DispatchError(e.desc)
    /\ err' = [err EXCEPT ![t] = e]
    /\ pc' = [pc EXCEPT ![t] = "failed"]
    /\ delay' = [delay EXCEPT ![t] = 0]
    /\ log' = [log EXCEPT ![t] = log[t] \o events \o <<"apply">>]
    /\ UNCHANGED <<lastTranscript, lastReply, useServerTTS, selectedVoice,
                   lastServerAudioData, lastServerAudioMime, pilotMasterVolume,
                   mixerVolume, feedbackFile, result, repeatData>>

\* the catch of stopRecordingAndSend
Failed(t, e, events) ==
    /\ status' = DispatchError(e.desc)
    /\ err' = [err EXCEPT ![t] = e]
    /\ pc' = [pc EXCEPT ![t] = "failed"]
    /\ delay' = [delay EXCEPT ![t] = 0]
    /\ log' = [log EXCEPT ![t] = log[t] \o events]
    /\ UNCHANGED <<lastTranscript, lastReply, useServerTTS, selectedVoice,
                   lastServerAudioData, lastServerAudioMime, pilotMasterVolume,
                   mixerVolume, feedbackFile, result, repeatData>>

\* as StopNoRecorder, but the guard is missing and the call goes on to line 80
StopNoRecorderGoesOn ==
    /\ recorder = 0
    /\ isRecording' = FALSE
    /\ status' = <<"Uploading...">>
    /\ UNCHANGED <<lastTranscript, lastReply, useServerTTS, selectedVoice, recorder,
                   audioPlayer, lastServerAudioData, lastServerAudioMime,
                   pilotMasterVolume, mixerVolume, feedbackFile, nSounding,
                   nextRec, played>>
    /\ UNCHANGED locals

\* stopRecordingAndSend() with no recorder: the guard returns
StopNoRecorder ==
    /\ recorder = 0
    /\ UNCHANGED vars

\* stopRecordingAndSend() up to the first request of sendToBackend; readOk is
\* whether Data(contentsOf: audioURL) succeeds
StopRecordingAndSend(readOk) ==
    /\ recorder # 0
    /\ LET t == recorder IN
        /\ isRecording' = FALSE
        /\ recorder' = 0
        /\ request' = [request EXCEPT ![t] = BuildRequest(t)]
        /\ IF readOk
           THEN /\ status' = <<"Uploading...">>
                /\ pc' = [pc EXCEPT ![t] = "req1"]
                /\ log' = [log EXCEPT ![t] = <<"req">>]
                /\ UNCHANGED <<err, delay, lastTranscript, lastReply, useServerTTS,
                               selectedVoice, lastServerAudioData,
                               lastServerAudioMime, pilotMasterVolume, mixerVolume,
                               feedbackFile, result, repeatData>>
           ELSE Failed(t, Err(0, ErrFileRead), <<>>)
    /\ UNCHANGED <<audioPlayer, nSounding, nextRec, played, first, http, body>>

\* ------------------------------------------------------------ pilot actions
\* as RepeatSuspends, without the look at the cache
RepeatIgnoresCache(action) == action.name = "repeat_last"

\* repeat_last with a cached blob is the one action that suspends
RepeatSuspends(action) ==
    action.name = "repeat_last" /\ lastServerAudioData # Nil

\* case "set_tts"
TtsAfter(action) ==
    IF action.name = "set_tts" /\ HasBool(action, "enabled")
    THEN BoolOf(action, "enabled")
    ELSE useServerTTS

\* as VoiceAfter, without the test for an empty voice
VoiceAfterAllowsEmpty(action) ==
    IF action.name = "set_voice" /\ HasString(action, "voice")
    THEN StringOf(action, "voice")
    ELSE selectedVoice

\* case "set_voice"
VoiceAfter(action) ==
    IF action.name = "set_voice" /\ HasString(action, "voice")
       /\ StringOf(action, "voice") # Empty
    THEN StringOf(action, "voice")
    ELSE selectedVoice

\* cases "adjust_volume" and "set_volume": is setMasterVolume called, and with what
CallsSetMasterVolume(action) ==
    \/ action.name = "adjust_volume"
    \/ action.name = "set_volume" /\ HasFloat(action, "value")

SetMasterVolumeArg(action) ==
    IF action.name = "adjust_volume"
    THEN pilotMasterVolume
         + (IF HasFloat(action, "delta") THEN FloatOf(action, "delta") ELSE 0)
    ELSE FloatOf(action, "value")

\* setMasterVolume(v): the two writes
VolumeAfter(action) ==
    IF CallsSetMasterVolume(action)
    THEN DidSet(Clamp(SetMasterVolumeArg(action)))
    ELSE pilotMasterVolume

MixerAfter(action) ==
    IF CallsSetMasterVolume(action)
    THEN <<Clamp(SetMasterVolumeArg(action))>>
    ELSE mixerVolume

\* case "save_feedback": the note handed to saveFeedbackNote
FeedbackNote(action, replyText) ==
    IF HasString(action, "note") THEN StringOf(action, "note") ELSE replyText

\* saveFeedbackNote(note); ioOk is whether the directory and the file can be written
SaveFeedbackNote(file, note, ioOk) ==
    LET trimmed == Trim(note) IN
    IF trimmed = Empty THEN file
    ELSE IF ioOk THEN Append(file, trimmed)
    ELSE file

\* the catch of saveFeedbackNote prints the failure
SaveEvents(action, replyText, ioOk) ==
    IF action.name = "save_feedback"
       /\ Trim(FeedbackNote(action, replyText)) # Empty /\ ~ioOk
    THEN <<"save_failed">>
    ELSE <<>>

FeedbackAfter(action, replyText, ioOk) ==
    IF action.name = "save_feedback"
    THEN SaveFeedbackNote(feedbackFile, FeedbackNote(action, replyText), ioOk)
    ELSE feedbackFile

\* ----------------------------------------------------------------- playback
\* as StopPlayer, but the active player is left playing
StopPlayerSkipped(ps) == ps

\* audioPlayer?.stop(), on the player and the count of sounding players
StopPlayer(ps) ==
    [player |-> [ps.player EXCEPT !.playing = FALSE],
     sounding |-> ps.sounding - (IF ps.player.playing THEN 1 ELSE 0)]

\* playServerAudio(data); how: "ok", "throws" (AVAudioPlayer(data:) throws) or
\* "nostart" (play() returns false)
PlayServerAudio(ps, data, how) ==
    LET stopped == StopPlayer(ps) IN
    IF how = "throws" THEN stopped
    ELSE [player |-> [data |-> data, playing |-> (how = "ok")],
          sounding |-> stopped.sounding + (IF how = "ok" THEN 1 ELSE 0)]

PlayOutcomes == {"ok", "throws", "nostart"}

Play(data, how) ==
    LET after == PlayServerAudio([player |-> audioPlayer, sounding |-> nSounding],
                                 data, how) IN
    /\ audioPlayer' = after.player
    /\ nSounding' = after.sounding

\* what a call of playServerAudio adds to the log: whether stop() ended a sound,
\* the call, and the error it prints
PlayEvents(how) ==
    (IF audioPlayer.playing THEN <<"stop">> ELSE <<>>)
    \o <<"play">>
    \o (IF how = "throws" THEN <<"play_error">> ELSE <<>>)

\* the sound of the current player ends by itself
PlaybackFinished ==
    /\ audioPlayer.playing
    /\ audioPlayer' = [audioPlayer EXCEPT !.playing = FALSE]
    /\ nSounding' = nSounding - 1
    /\ UNCHANGED <<isRecording, lastTranscript, lastReply, status, useServerTTS,
                   selectedVoice, recorder, lastServerAudioData,
                   lastServerAudioMime, pilotMasterVolume, mixerVolume,
                   feedbackFile, nextRec, played>>
    /\ UNCHANGED locals

\* ------------------------------------------------- stopRecordingAndSend, do {}
\* "if let audioData = result.audioData": cache it and start the delayed playback
AfterAction(t, res, events) ==
    IF res.audioData # Nil
    THEN /\ lastServerAudioData' = res.audioData
         /\ lastServerAudioMime' = res.audioMime
         /\ pc' = [pc EXCEPT ![t] = "replyDelay"]
         /\ delay' = [delay EXCEPT ![t] = Max(0, replyPlaybackDelaySeconds)]
         /\ log' = [log EXCEPT ![t] = log[t] \o events \o <<"dwait">>]
    ELSE /\ UNCHANGED <<lastServerAudioData, lastServerAudioMime>>
         /\ pc' = [pc EXCEPT ![t] = "done"]
         /\ delay' = [delay EXCEPT ![t] = 0]
         /\ log' = [log EXCEPT ![t] = log[t] \o events]

\* the body of do {} after sendToBackend returned res, up to its next suspension;
\* action is what "if let action = result.action" binds
DoBlock(t, res, action, ioOk) ==
    /\ lastTranscript' = res.transcript
    /\ lastReply' = res.reply
    /\ status' = <<"Done">>
    /\ result' = [result EXCEPT ![t] = res]
    /\ UNCHANGED err
    /\ IF action = NoAction
       THEN /\ UNCHANGED <<useServerTTS, selectedVoice, pilotMasterVolume,
                           mixerVolume, feedbackFile, repeatData>>
            /\ AfterAction(t, res, <<>>)
       ELSE IF RepeatSuspends(action)
       THEN /\ repeatData' = [repeatData EXCEPT ![t] = lastServerAudioData]
            /\ pc' = [pc EXCEPT ![t] = "repeatDelay"]
            /\ delay' = [delay EXCEPT ![t] = Max(0, RepeatDelay)]
            /\ log' = [log EXCEPT ![t] = log[t] \o <<"apply", "rwait">>]
            /\ UNCHANGED <<useServerTTS, selectedVoice, pilotMasterVolume,
                           mixerVolume, feedbackFile, lastServerAudioData,
                           lastServerAudioMime>>
       ELSE /\ useServerTTS' = TtsAfter(action)
            /\ selectedVoice' = VoiceAfter(action)
            /\ pilotMasterVolume' = VolumeAfter(action)
            /\ mixerVolume' = MixerAfter(action)
            /\ feedbackFile' = FeedbackAfter(action, res.reply, ioOk)
            /\ UNCHANGED repeatData
            /\ AfterAction(t, res, <<"apply">> \o SaveEvents(action, res.reply, ioOk))

\* as Succeed, but a reply with audio is scheduled without applying its action
SucceedPlaysFirst(t, res, ioOk) ==
    DoBlock(t, res, IF res.audioData # Nil THEN NoAction ELSE res.action, ioOk)

\* sendToBackend returned res
Succeed(t, res, ioOk) == DoBlock(t, res, res.action, ioOk)

\* sendToBackend from "if http.statusCode == 429" on, then do {} or catch {}
Continue(t, resp, ioOk) ==
    LET ev == Evaluate(resp) IN
    IF ev.ok THEN Succeed(t, ev.result, ioOk) ELSE Failed(t, ev.err, <<>>)

\* the first doRequest() returns a response
FirstResponse(t, resp, ioOk) ==
    /\ pc[t] = "req1"
    /\ first' = [first EXCEPT ![t] = resp.status]
    /\ http' = [http EXCEPT ![t] = resp.status]
    /\ body' = [body EXCEPT ![t] = BodyOf(resp)]
    /\ IF NeedsRetry(resp.status)
       THEN /\ status' = <<"Waking server...">>
            /\ pc' = [pc EXCEPT ![t] = "backoff"]
            /\ delay' = [delay EXCEPT ![t] = BackoffDelay]
            /\ log' = [log EXCEPT ![t] = log[t] \o <<"wait">>]
            /\ UNCHANGED <<lastTranscript, lastReply, useServerTTS, selectedVoice,
                           lastServerAudioData, lastServerAudioMime,
                           pilotMasterVolume, mixerVolume, feedbackFile, err,
                           result, repeatData>>
       ELSE Continue(t, resp, ioOk)
    /\ UNCHANGED <<isRecording, recorder, nextRec, audioPlayer, nSounding, played,
                   request>>

\* as BackoffElapsed, but the fields of the request are read again for the retry
BackoffRebuilds(t) ==
    /\ pc[t] = "backoff"
    /\ pc' = [pc EXCEPT ![t] = "req2"]
    /\ delay' = [delay EXCEPT ![t] = 0]
    /\ log' = [log EXCEPT ![t] = log[t] \o <<"req">>]
    /\ request' = [request EXCEPT ![t] = BuildRequest(t)]
    /\ UNCHANGED shared
    /\ UNCHANGED <<first, http, body, err, result, repeatData>>

\* Task.sleep(1.5 s) returns: the second doRequest()
BackoffElapsed(t) ==
    /\ pc[t] = "backoff"
    /\ pc' = [pc EXCEPT ![t] = "req2"]
    /\ delay' = [delay EXCEPT ![t] = 0]
    /\ log' = [log EXCEPT ![t] = log[t] \o <<"req">>]
    /\ UNCHANGED shared
    /\ UNCHANGED <<request, first, http, body, err, result, repeatData>>

\* as RetryResponse, but a gateway status on the retry is waited for again
RetryResponseWaitsAgain(t, resp, ioOk) ==
    /\ pc[t] = "req2"
    /\ http' = [http EXCEPT ![t] = resp.status]
    /\ body' = [body EXCEPT ![t] = BodyOf(resp)]
    /\ IF NeedsRetry(resp.status)
       THEN /\ status' = <<"Waking server...">>
            /\ pc' = [pc EXCEPT ![t] = "backoff"]
            /\ delay' = [delay EXCEPT ![t] = BackoffDelay]
            /\ log' = [log EXCEPT ![t] = log[t] \o <<"wait">>]
            /\ UNCHANGED <<lastTranscript, lastReply, useServerTTS, selectedVoice,
                           lastServerAudioData, lastServerAudioMime,
                           pilotMasterVolume, mixerVolume, feedbackFile, err,
                           result, repeatData>>
       ELSE Continue(t, resp, ioOk)
    /\ UNCHANGED <<isRecording, recorder, nextRec, audioPlayer, nSounding, played,
                   request, first>>

\* the second doRequest() returns a response
RetryResponse(t, resp, ioOk) ==
    /\ pc[t] = "req2"
    /\ http' = [http EXCEPT ![t] = resp.status]
    /\ body' = [body EXCEPT ![t] = BodyOf(resp)]
    /\ Continue(t, resp, ioOk)
    /\ UNCHANGED <<isRecording, recorder, nextRec, audioPlayer, nSounding, played,
                   request, first>>

\* doRequest() throws: URLSession fails, or the response is no HTTPURLResponse
RequestErrors == {Err(0 - 1001, ErrTransport), Err(0, ErrNoHTTP)}

RequestThrows(t, e) ==
    /\ pc[t] \in {"req1", "req2"}
    /\ Failed(t, e, <<>>)
    /\ UNCHANGED <<isRecording, recorder, nextRec, audioPlayer, nSounding, played,
                   request, first, http, body>>

\* repeat_last: Task.sleep(0.2 s) returns, playServerAudio(data), then the rest of do {}
RepeatElapsed(t, how) ==
    /\ pc[t] = "repeatDelay"
    /\ Play(repeatData[t], how)
    /\ AfterAction(t, result[t], PlayEvents(how))
    /\ UNCHANGED <<isRecording, lastTranscript, lastReply, status, useServerTTS,
                   selectedVoice, recorder, pilotMasterVolume, mixerVolume,
                   feedbackFile, nextRec, played>>
    /\ UNCHANGED <<request, first, http, body, err, result, repeatData>>

\* as ReplyElapsed, but the error of AVAudioPlayer(data:) reaches the catch of
\* stopRecordingAndSend
ReplyElapsedRethrows(t, how) ==
    /\ pc[t] = "replyDelay"
    /\ Play(result[t].audioData, how)
    /\ played' = IF how = "ok"
                 THEN [data |-> result[t].audioData, mime |-> result[t].audioMime]
                 ELSE played
    /\ IF how = "throws"
       THEN /\ pc' = [pc EXCEPT ![t] = "failed"]
            /\ err' = [err EXCEPT ![t] = Err(0, <<"playback">>)]
            /\ status' = DispatchError(<<"playback">>)
       ELSE /\ pc' = [pc EXCEPT ![t] = "done"]
            /\ UNCHANGED <<err, status>>
    /\ delay' = [delay EXCEPT ![t] = 0]
    /\ log' = [log EXCEPT ![t] = log[t] \o PlayEvents(how)]
    /\ UNCHANGED <<isRecording, lastTranscript, lastReply, useServerTTS,
                   selectedVoice, recorder, lastServerAudioData,
                   lastServerAudioMime, pilotMasterVolume, mixerVolume,
                   feedbackFile, nextRec>>
    /\ UNCHANGED <<request, first, http, body, result, repeatData>>

\* the reply: Task.sleep(replyPlaybackDelaySeconds) returns, playServerAudio(audioData)
ReplyElapsed(t, how) ==
    /\ pc[t] = "replyDelay"
    /\ Play(result[t].audioData, how)
    /\ played' = IF how = "ok"
                 THEN [data |-> result[t].audioData, mime |-> result[t].audioMime]
                 ELSE played
    /\ pc' = [pc EXCEPT ![t] = "done"]
    /\ delay' = [delay EXCEPT ![t] = 0]
    /\ log' = [log EXCEPT ![t] = log[t] \o PlayEvents(how)]
    /\ UNCHANGED <<isRecording, lastTranscript, lastReply, status, useServerTTS,
                   selectedVoice, recorder, lastServerAudioData,
                   lastServerAudioMime, pilotMasterVolume, mixerVolume,
                   feedbackFile, nextRec>>
    /\ UNCHANGED <<request, first, http, body, err, result, repeatData>>

\* stopRecordingAndSend returns: its locals are gone. The return belongs to the
\* segment that reached "done" or "failed"; it is a step of its own only so
\* that what the call did can be read off a state, and nothing runs before it.
Return(t) ==
    /\ pc[t] \in {"done", "failed"}
    /\ pc' = [pc EXCEPT ![t] = "returned"]
    /\ request' = [request EXCEPT ![t] = NoRequest]
    /\ first' = [first EXCEPT ![t] = 0]
    /\ http' = [http EXCEPT ![t] = 0]
    /\ body' = [body EXCEPT ![t] = NoBody]
    /\ err' = [err EXCEPT ![t] = NoErr]
    /\ result' = [result EXCEPT ![t] = NoResult]
    /\ repeatData' = [repeatData EXCEPT ![t] = Nil]
    /\ delay' = [delay EXCEPT ![t] = 0]
    /\ log' = [log EXCEPT ![t] = <<>>]
    /\ UNCHANGED shared

\* no call is between its last segment and its return
Settled == \A t \in Tasks : pc[t] \notin {"done", "failed"}

\* ------------------------------------------------------------------- inputs
Hello == <<"h", "i">>
ReplyOk == <<"o", "k">>

\* responses the code rejects: a status other than 200, or a body that is no envelope
ErrorResponses ==
    {Response(s, "oops", FALSE, NoEnvelope) : s \in {201, 404, 429, 500, 502, 503, 504}}
    \cup {Response(200, "{", FALSE, NoEnvelope)}

OkResponses(envelopes) == {Response(200, "", TRUE, e) : e \in envelopes}

\* audio_b64 and audio_mime of a reply: none and two blobs
Audios == {<<Nil, Nil>>, <<"QTE=", "audio/mpeg">>, <<"QTI=", "audio/wav">>}

\* an audio_b64 that is not base64
BadAudios == {<<"!!", "audio/mpeg">>}

Envelopes(replies, audios, actions) ==
    {Envelope(Hello, r, a[1], a[2], act) : r \in replies, a \in audios, act \in actions}

\* one action of every kind
CoreActions ==
    {NoAction,
     Act("repeat_last", "", Absent),
     Act("help", "", Absent),
     Act("set_tts", "enabled", BoolV(FALSE)),
     Act("set_voice", "voice", StringV(Alloy)),
     Act("adjust_volume", "delta", DoubleV(1)),
     Act("set_volume", "value", DoubleV(25)),
     Act("save_feedback", "note", StringV(<<" ", "x", " ">>)),
     Act("fly", "", Absent)}

CoreResponses ==
    ErrorResponses
    \cup OkResponses(Envelopes({ReplyOk}, Audios, CoreActions))
    \cup OkResponses(Envelopes({ReplyOk}, BadAudios,
                                {NoAction, Act("set_tts", "enabled", BoolV(FALSE))}))

\* ------------------------------------------------------------ specification
Local ==
    \/ \E micOk \in BOOLEAN : Settled /\ StartRecording(micOk)
    \/ Settled /\ StopNoRecorder
    \/ \E readOk \in BOOLEAN : Settled /\ StopRecordingAndSend(readOk)
    \/ \E t \in Tasks : Settled /\ BackoffElapsed(t)
    \/ \E t \in Tasks, e \in RequestErrors : Settled /\ RequestThrows(t, e)
    \/ \E t \in Tasks, how \in PlayOutcomes : Settled /\ RepeatElapsed(t, how)
    \/ \E t \in Tasks, how \in PlayOutcomes : Settled /\ ReplyElapsed(t, how)
    \/ Settled /\ PlaybackFinished

\* The backend answers the first or the second request of a call
Respond(resp) ==
    \/ \E t \in Tasks, ioOk \in BOOLEAN : Settled /\ FirstResponse(t, resp, ioOk)
    \/ \E t \in Tasks, ioOk \in BOOLEAN : Settled /\ RetryResponse(t, resp, ioOk)

Next ==
    \/ Local
    \/ \E resp \in CoreResponses : Respond(resp)
    \/ \E t \in Tasks : Return(t)

Spec == Init /\ [][Next]_vars

RepeatLast == Act("repeat_last", "", Absent)
Unavailable == Response(503, "oops", FALSE, NoEnvelope)

\* Every status and failure, with a plain reply and a reply that repeats and
\* carries audio
RetryResponses ==
    ErrorResponses
    \cup OkResponses({Envelope(Hello, ReplyOk, Nil, Nil, NoAction),
                      Envelope(Hello, ReplyOk, "QTE=", "audio/mpeg", RepeatLast)})

NextRetry ==
    \/ Local
    \/ \E resp \in RetryResponses : Respond(resp)
    \/ \E t \in Tasks : Return(t)

SpecRetry == Init /\ [][NextRetry]_vars

\* A gateway status, a client error, a body that does not decode, a plain reply
\* and a reply that repeats and carries audio
LiveResponses ==
    {Response(s, "oops", FALSE, NoEnvelope) : s \in {404, 502, 503}}
    \cup {Response(200, "{", FALSE, NoEnvelope)}
    \cup OkResponses({Envelope(Hello, ReplyOk, Nil, Nil, NoAction),
                      Envelope(Hello, ReplyOk, "QTE=", "audio/mpeg", RepeatLast)})

NextLive ==
    \/ Local
    \/ \E resp \in LiveResponses : Respond(resp)
    \/ \E t \in Tasks : Return(t)

\* The scheduling the exchange relies on: every request is answered or fails
\* (URLSession, within timeoutInterval), every Task.sleep returns, and a call
\* that has finished returns.
Answer(t) ==
    /\ Settled
    /\ \/ \E resp \in LiveResponses, ioOk \in BOOLEAN : FirstResponse(t, resp, ioOk)
       \/ \E resp \in LiveResponses, ioOk \in BOOLEAN : RetryResponse(t, resp, ioOk)
       \/ \E e \in RequestErrors : RequestThrows(t, e)

Wake(t) == Settled /\ BackoffElapsed(t)

Fairness ==
    \A t \in Tasks :
        /\ WF_vars(Answer(t))
        /\ WF_vars(Wake(t))
        /\ WF_vars(Return(t))

SpecLive == Init /\ [][NextLive]_vars /\ Fairness

\* Volume commands of any size and sign, with the argument missing or mistyped;
\* a JSON integer is an Int, a fraction a Double (both in tenths here)
VolumeActions ==
    {Act("adjust_volume", "delta", v) :
        v \in {Absent, DoubleV(1), DoubleV(0 - 1), DoubleV(37), DoubleV(0 - 40),
               StringV(<<"u", "p">>)}}
    \cup {Act("set_volume", "value", v) :
        v \in {Absent, DoubleV(7), IntV(VolOne), DoubleV(0 - 3), IntV(70),
               BoolV(TRUE)}}

VolumeResponses ==
    {Unavailable}
    \cup OkResponses(Envelopes({ReplyOk}, {<<Nil, Nil>>}, VolumeActions))
    \cup OkResponses({Envelope(Hello, ReplyOk, "QTE=", "audio/mpeg", RepeatLast)})

NextVolume ==
    \/ Local
    \/ \E resp \in VolumeResponses : Respond(resp)
    \/ \E t \in Tasks : Return(t)

SpecVolume == Init /\ [][NextVolume]_vars

\* Replies that carry audio and an action that changes the control state, writes
\* feedback or repeats
AudioActions ==
    {RepeatLast,
     Act("set_tts", "enabled", BoolV(FALSE)),
     Act("set_voice", "voice", StringV(Alloy)),
     Act("adjust_volume", "delta", DoubleV(37)),
     Act("set_volume", "value", DoubleV(7)),
     Act("save_feedback", "note", StringV(<<" ", "x", " ">>))}

ActionResponses ==
    {Unavailable}
    \cup OkResponses(Envelopes({ReplyOk}, {<<"QTE=", "audio/mpeg">>}, AudioActions))

NextActions ==
    \/ Local
    \/ \E resp \in ActionResponses : Respond(resp)
    \/ \E t \in Tasks : Return(t)

SpecActions == Init /\ [][NextActions]_vars

\* Replies with one blob or the other, with and without repeat_last
PlaybackResponses ==
    {Unavailable}
    \cup OkResponses(Envelopes({ReplyOk}, Audios, {NoAction, RepeatLast}))

NextPlayback ==
    \/ Local
    \/ \E resp \in PlaybackResponses : Respond(resp)
    \/ \E t \in Tasks : Return(t)

SpecPlayback == Init /\ [][NextPlayback]_vars

\* Feedback notes: missing, empty, blank, padded, plain and mistyped, with replies
\* that are empty, blank and padded
FeedbackActions ==
    {Act("save_feedback", "note", v) :
        v \in {Absent, StringV(Empty), StringV(<<" ">>), StringV(<<" ", "x", "\n">>),
               StringV(<<"y">>), IntV(70)}}
    \cup {RepeatLast}

FeedbackReplies == {Empty, <<"\n", " ">>, <<" ", "o", "k">>}

FeedbackResponses ==
    {Unavailable}
    \cup OkResponses(Envelopes(FeedbackReplies,
                                {<<Nil, Nil>>, <<"QTE=", "audio/mpeg">>},
                                FeedbackActions))

NextFeedback ==
    \/ Local
    \/ \E resp \in FeedbackResponses : Respond(resp)
    \/ \E t \in Tasks : Return(t)

SpecFeedback == Init /\ [][NextFeedback]_vars

\* Actions the switch does nothing for: unknown names, help, and known names
\* whose argument is missing, under another key, null or of another type
IgnoredActions ==
    {Act("fly", "", Absent),
     Act("fly", "voice", StringV(Alloy)),
     Act("help", "", Absent),
     Act("help", "enabled", BoolV(FALSE))}
    \cup {Act("set_tts", "enabled", v) :
            v \in {Absent, NullV, IntV(0), StringV(<<"n", "o">>)}}
    \cup {Act("set_tts", "value", BoolV(FALSE))}
    \cup {Act("set_voice", "voice", v) :
            v \in {Absent, NullV, IntV(7), BoolV(TRUE), StringV(Empty)}}
    \cup {Act("set_voice", "name", StringV(Alloy))}
    \cup {Act("set_volume", "value", v) :
            v \in {Absent, NullV, BoolV(TRUE), StringV(<<"7">>)}}
    \cup {Act("set_volume", "delta", DoubleV(7))}

\* well-formed actions, so that the ignored ones meet a state that is not the
\* initial one
SettingActions ==
    {Act("set_tts", "enabled", BoolV(FALSE)),
     Act("set_voice", "voice", StringV(Alloy)),
     Act("set_volume", "value", DoubleV(7)),
     Act("save_feedback", "note", StringV(<<"y">>))}

IgnoredResponses ==
    {Unavailable}
    \cup OkResponses(Envelopes({ReplyOk}, {<<Nil, Nil>>},
                                IgnoredActions \cup SettingActions))
    \cup OkResponses(Envelopes({ReplyOk}, {<<"QTE=", "audio/mpeg">>},
                                {RepeatLast, Act("fly", "", Absent),
                                 Act("set_voice", "voice", StringV(Empty))}))

NextIgnored ==
    \/ Local
    \/ \E resp \in IgnoredResponses : Respond(resp)
    \/ \E t \in Tasks : Return(t)

SpecIgnored == Init /\ [][NextIgnored]_vars

\* Replies whose audio_b64 is not base64, with no action, a setting and
\* repeat_last, under status 200 and 201, among replies whose audio decodes
BadAudioResponses ==
    {Unavailable}
    \cup OkResponses(Envelopes({ReplyOk}, {<<"QTE=", "audio/mpeg">>},
                                {NoAction, RepeatLast}))
    \cup OkResponses(Envelopes({<<"n", "o">>}, BadAudios,
                                {NoAction, RepeatLast,
                                 Act("set_tts", "enabled", BoolV(FALSE))}))
    \cup {Response(201, "{...}", TRUE,
                     Envelope(Hello, <<"n", "o">>, "!!", "audio/mpeg", NoAction))}

NextBadAudio ==
    \/ Local
    \/ \E resp \in BadAudioResponses : Respond(resp)
    \/ \E t \in Tasks : Return(t)

SpecBadAudio == Init /\ [][NextBadAudio]_vars

\* =================================================================== claims
Range(seq) == {seq[i] : i \in DOMAIN seq}
Count(seq, e) == Cardinality({i \in DOMAIN seq : seq[i] = e})
\* every e in seq has a d somewhere before it
Precedes(seq, d, e) ==
    \A j \in DOMAIN seq : seq[j] = e => \E i \in 1..(j - 1) : seq[i] = d
\* no e in seq after the first d
NoneAfter(seq, d, e) ==
    \A i, j \in DOMAIN seq : seq[i] = d /\ seq[j] = e => j < i

Requests(t) == Count(log[t], "req")
\* sendToBackend has returned or thrown
Dispatched(t) == pc[t] \in {"repeatDelay", "replyDelay", "done", "failed"}
\* a step in which exchange t leaves sendToBackend with a result
Returns(t) ==
    /\ pc[t] \in {"req1", "req2"}
    /\ pc'[t] \in {"repeatDelay", "replyDelay", "done"}

\* C1: a dispatch issues two requests when its first response is 502, 503 or
\* 504, one request for any other first status, and never three or more.
C1_RetryBudget ==
    \A t \in Tasks :
        /\ Requests(t) <= 2
        /\ pc[t] = "req2" => first[t] \in {502, 503, 504}
        /\ Dispatched(t) /\ first[t] \in {502, 503, 504} => Requests(t) = 2
        /\ Dispatched(t) /\ first[t] \notin {0, 502, 503, 504} => Requests(t) = 1

\* a 503 whose retry fails as well: two requests, then the error
C1_Witness ==
    \E t \in Tasks :
        /\ pc[t] = "failed"
        /\ first[t] = 503
        /\ err[t].code = 503
        /\ Requests(t) = 2

\* C2: a first response of 429 is not retried and not waited for; the dispatch
\* fails with the busy error (code 429, its own message, not "HTTP 429: ..."),
\* and the status goes to "Dispatch error: ..." in that very step, with no
\* "Waking server..." of this dispatch before it.
C2_BusyNotRetried ==
    /\ [](\A t \in Tasks :
            first[t] = 429 =>
                /\ pc[t] = "failed"
                /\ log[t] = <<"req">>
                /\ err[t] = Err(429, <<"Dispatch is busy. Try again in a moment.">>)
                /\ err[t].desc # ErrHTTP(429, "oops"))
    /\ [][\A t \in Tasks :
            first[t] # 429 /\ first'[t] = 429 =>
                /\ status' = <<"Dispatch error: ",
                               "Dispatch is busy. Try again in a moment.">>
                /\ delay'[t] = 0
                /\ "wait" \notin Range(log'[t])]_vars

C2_Witness ==
    \E t \in Tasks :
        /\ first[t] = 429
        /\ pc[t] = "failed"
        /\ status = DispatchError(ErrBusy)

\* C3: pilotMasterVolume is within [0, 1] in every state, whatever the deltas
\* and values applied, and the mixer holds the same clamped value once written.
C3_VolumeClamped ==
    /\ pilotMasterVolume \in 0..VolOne
    /\ mixerVolume # <<>> => mixerVolume = <<pilotMasterVolume>>

\* a delta of +3.7 was applied and the volume stands at 1.0
C3_Witness ==
    \E t \in Tasks :
        /\ result[t].action = Act("adjust_volume", "delta", DoubleV(37))
        /\ "apply" \in Range(log[t])
        /\ pilotMasterVolume = VolOne
        /\ mixerVolume = <<VolOne>>

\* C4: a failed dispatch never calls applyPilotAction and starts no playback:
\* the step that fails changes the status to "Dispatch error: ..." and leaves
\* the control state, the cache, the player and the feedback file alone.
C4_FailedAppliesNothing ==
    /\ [](\A t \in Tasks :
            pc[t] = "failed" =>
                /\ Range(log[t]) \subseteq {"req", "wait"}
                /\ result[t] = NoResult
                /\ repeatData[t] = Nil)
    /\ [][\A t \in Tasks :
            pc[t] # "failed" /\ pc'[t] = "failed" =>
                /\ status' = <<"Dispatch error: ">> \o err'[t].desc
                /\ UNCHANGED <<useServerTTS, selectedVoice, pilotMasterVolume,
                               mixerVolume, feedbackFile, audioPlayer, nSounding,
                               lastServerAudioData, lastServerAudioMime,
                               lastTranscript, lastReply>>]_vars

\* a 200 whose body is no envelope, after a cache and a player exist
C4_Witness ==
    \E t \in Tasks :
        /\ pc[t] = "failed"
        /\ err[t].desc = ErrDecode
        /\ lastServerAudioData # Nil
        /\ audioPlayer.playing

\* C5: for a reply with an action and audio, the action has been applied (and a
\* repeat_last playback has been made) before the delayed-playback wait of the
\* reply's audio begins, and the effect of the action is in the state in which
\* that wait begins; the reply's audio is played only after the wait.
C5_ActionBeforeReplyAudio ==
    /\ [](\A t \in Tasks :
            result[t].action # NoAction /\ "dwait" \in Range(log[t]) =>
                /\ Precedes(log[t], "apply", "dwait")
                /\ Precedes(log[t], "dwait", "play") \/ "rwait" \in Range(log[t])
                /\ "rwait" \in Range(log[t]) =>
                       /\ Precedes(log[t], "play", "dwait")
                       /\ Count(log[t], "play") = Count(log[t], "dwait")
                                                  + (IF pc[t] = "done" THEN 1 ELSE 0))
    /\ [][\A t \in Tasks :
            Returns(t) /\ pc'[t] = "replyDelay" =>
                LET a == result'[t].action IN
                /\ a.name = "set_tts" /\ a.key = "enabled" /\ a.val.ty = "bool"
                       => useServerTTS' = a.val.b
                /\ a.name = "set_voice" /\ a.key = "voice" /\ a.val.ty = "string"
                   /\ a.val.s # <<>>
                       => selectedVoice' = a.val.s
                /\ a.name = "set_volume" /\ a.key = "value"
                   /\ a.val.ty \in {"int", "double"}
                       => /\ pilotMasterVolume' = Max(0, Min(10, a.val.n))
                          /\ mixerVolume' = <<pilotMasterVolume'>>
                /\ a.name = "adjust_volume" /\ a.key = "delta"
                   /\ a.val.ty \in {"int", "double"}
                       => /\ pilotMasterVolume'
                               = Max(0, Min(10, pilotMasterVolume + a.val.n))
                          /\ mixerVolume' = <<pilotMasterVolume'>>
                /\ a.name = "save_feedback" /\ "save_failed" \notin Range(log'[t])
                   /\ Trim(IF a.val.ty = "string" THEN a.val.s ELSE result'[t].reply)
                          # <<>>
                       => Len(feedbackFile') = Len(feedbackFile) + 1]_vars

\* set_voice{alloy} with audio: the voice is alloy while the reply waits to play
C5_Witness ==
    \E t \in Tasks :
        /\ pc[t] = "replyDelay"
        /\ result[t].action = Act("set_voice", "voice", StringV(Alloy))
        /\ result[t].audioData # Nil
        /\ selectedVoice = Alloy
        /\ ~audioPlayer.playing

\* C6: at most one player is playing in any state, and it is the one the
\* manager references: a playback that starts has stopped the active one first.
C6_OnePlayback ==
    /\ nSounding \in {0, 1}
    /\ nSounding = 1 <=> audioPlayer.playing

\* a playback that stopped a playing one and is now the one playing
C6_Witness ==
    \E t \in Tasks :
        /\ "stop" \in Range(log[t])
        /\ audioPlayer.playing
        /\ nSounding = 1

\* C7: no two exchanges are in flight at the same time (from the upload of one
\* to its Done or Failed, no second upload starts).
InFlight(t) == pc[t] \in {"req1", "backoff", "req2", "repeatDelay", "replyDelay"}

C7_OneExchangeInFlight ==
    Cardinality({t \in Tasks : InFlight(t)}) <= 1

\* C8: save_feedback persists the trimmed note when the note is a non-empty
\* string and the trimmed replyText when the note is absent or empty; nothing
\* when the chosen text is empty after trimming (a write that fails is printed
\* and is not held against the claim).
C8_FeedbackFallback ==
    [][\A t \in Tasks :
        Returns(t) /\ result'[t].action.name = "save_feedback"
        /\ "save_failed" \notin Range(log'[t]) =>
            LET a == result'[t].action
                chosen == IF a.key = "note" /\ a.val.ty = "string" /\ a.val.s # <<>>
                          THEN a.val.s
                          ELSE result'[t].reply
            IN feedbackFile' = IF Trim(chosen) = <<>> THEN feedbackFile
                               ELSE Append(feedbackFile, Trim(chosen))]_vars

\* C9: repeat_last with a cached blob waits 0.2 s and then calls playback with
\* exactly the bytes that were cached when it was applied, issuing no request;
\* the player it starts holds those bytes. With an empty cache it suspends
\* nothing, plays nothing, fails nothing and leaves the control state alone.
C9_RepeatLast ==
    /\ [](\A t \in Tasks :
            /\ pc[t] = "repeatDelay" =>
                   /\ delay[t] = 2
                   /\ repeatData[t] # Nil
                   /\ result[t].action.name = "repeat_last"
            /\ NoneAfter(log[t], "apply", "req"))
    /\ [][\A t \in Tasks :
            /\ Returns(t) /\ result'[t].action.name = "repeat_last"
               /\ lastServerAudioData # Nil =>
                   /\ pc'[t] = "repeatDelay"
                   /\ repeatData'[t] = lastServerAudioData
                   /\ UNCHANGED <<audioPlayer, nSounding>>
            /\ Returns(t) /\ result'[t].action.name = "repeat_last"
               /\ lastServerAudioData = Nil =>
                   /\ pc'[t] \in {"replyDelay", "done"}
                   /\ Range(log'[t]) \cap {"rwait", "play", "play_error"} = {}
                   /\ err'[t] = NoErr
                   /\ UNCHANGED <<useServerTTS, selectedVoice, pilotMasterVolume,
                                  mixerVolume, feedbackFile, audioPlayer, nSounding,
                                  repeatData>>
                   /\ result'[t].audioData = Nil
                          => UNCHANGED <<lastServerAudioData, lastServerAudioMime>>
            /\ pc[t] = "repeatDelay" /\ pc'[t] # "repeatDelay" =>
                   /\ Requests(t)' = Requests(t)
                   /\ Count(log'[t], "play") = Count(log[t], "play") + 1
                   /\ \/ audioPlayer' = [data |-> repeatData[t], playing |-> TRUE]
                      \/ audioPlayer' = [data |-> repeatData[t], playing |-> FALSE]
                      \/ /\ "play_error" \in Range(log'[t])
                         /\ ~audioPlayer'.playing]_vars

\* the repeat played the blob of an earlier reply while a newer reply is cached
C9_Witness ==
    \E t \in Tasks :
        /\ result[t].action.name = "repeat_last"
        /\ "rwait" \in Range(log[t])
        /\ audioPlayer = [data |-> repeatData[t], playing |-> TRUE]
        /\ lastServerAudioData # repeatData[t]
        /\ Requests(t) = 1

\* C10: the cache holds the bytes and MIME of the most recent reply audio whose
\* playback succeeded, and nothing else.
C10_CacheIsLastPlayed ==
    /\ lastServerAudioData = played.data
    /\ lastServerAudioMime = played.mime

\* the last request of exchange t was answered by an HTTP response
Answered(t) ==
    /\ http[t] # 0
    /\ err[t].desc \notin {<<"The request timed out.">>, <<"No HTTPURLResponse">>}

\* C11: a dispatch whose last request was answered fails with an HTTP error
\* exactly when the final status is outside 200..299: a final status outside
\* 2xx other than 429 gives the error with that code and "HTTP <code>: <body>",
\* and a 2xx final status is taken as success and decoded (it can then fail
\* only in decoding the body).
C11_FailsIffNot2xx ==
    \A t \in Tasks :
        Dispatched(t) /\ Answered(t) =>
            /\ http[t] \notin 200..299 /\ http[t] # 429 =>
                   /\ pc[t] = "failed"
                   /\ err[t] = [code |-> http[t],
                                desc |-> <<"HTTP ", ToString(http[t]), ": ", "oops">>]
            /\ http[t] = 429 => pc[t] = "failed" /\ err[t].code = 429
            /\ http[t] \in 200..299 =>
                   \/ pc[t] # "failed"
                   \/ err[t] = [code |-> 0, desc |-> <<"JSON decoding error">>]

\* the states of one dispatch: Idle, Uploading, WaitingRetry, Done, Failed
Uploading(t) == pc[t] \in {"req1", "req2"}
WaitingRetry(t) == pc[t] = "backoff"
Done(t) == pc[t] \in {"repeatDelay", "replyDelay", "done"}

\* C12: a dispatch moves Idle -> Uploading -> (WaitingRetry -> Uploading)? ->
\* Done | Failed and by no other edge, and once uploading it reaches Done or
\* Failed when requests are answered and sleeps return. After a first 502, 503
\* or 504, a 200 on the retry that decodes ends in Done after exactly one wait
\* and one further request, and any status outside 2xx on the retry ends in
\* Failed.
C12_DispatchStateMachine ==
    /\ \A t \in Tasks : (pc[t] = "req1") ~> (Done(t) \/ pc[t] = "failed")
    /\ [][\A t \in Tasks :
            /\ pc[t] = "idle" => pc'[t] \in {"idle", "req1", "failed"}
            /\ pc[t] = "req1" =>
                   \/ pc'[t] \in {"req1", "backoff", "failed"}
                   \/ Done(t)'
            /\ pc[t] = "backoff" => pc'[t] \in {"backoff", "req2"}
            /\ pc[t] = "req2" =>
                   \/ pc'[t] \in {"req2", "failed"}
                   \/ Done(t)'
            /\ pc[t] \in {"req1", "req2"} /\ Done(t)' => status' = <<"Done">>
            /\ pc[t] = "req2" /\ pc'[t] # "req2" =>
                   /\ first[t] \in {502, 503, 504}
                   /\ http'[t] = 200 =>
                          \/ /\ Done(t)'
                             /\ Count(log'[t], "wait") = 1
                             /\ Count(log'[t], "req") = 2
                          \/ /\ pc'[t] = "failed"
                             /\ err'[t].desc = <<"JSON decoding error">>
                   /\ http'[t] \notin 200..299 => pc'[t] = "failed"]_vars

\* 503, then 200 on the retry: Done after one wait
C12_Witness ==
    \E t \in Tasks :
        /\ first[t] = 503
        /\ http[t] = 200
        /\ pc[t] = "done"
        /\ status = <<"Done">>
        /\ Count(log[t], "wait") = 1

\* an action the claim calls a no-op: a name outside the seven kinds, help, or
\* set_tts / set_voice / set_volume with a malformed argument
Ignored(a) ==
    /\ a.name # "nil"
    /\ \/ a.name \notin {"repeat_last", "help", "set_tts", "set_voice",
                         "adjust_volume", "set_volume", "save_feedback"}
       \/ a.name = "help"
       \/ a.name = "set_tts" /\ ~(a.key = "enabled" /\ a.val.ty = "bool")
       \/ a.name = "set_voice"
          /\ ~(a.key = "voice" /\ a.val.ty = "string" /\ a.val.s # <<>>)
       \/ a.name = "set_volume"
          /\ ~(a.key = "value" /\ a.val.ty \in {"int", "double"})

\* C13: the step that applies an unknown action, help, or set_tts / set_voice /
\* set_volume with a malformed argument leaves useServerTTS, selectedVoice,
\* pilotMasterVolume, the mixer volume, the player and the feedback file as
\* they were, and the audio cache too (but for the reply's own audio, which the
\* exchange caches after the action), and the exchange does not fail.
C13_IgnoredActionsChangeNothing ==
    [][\A t \in Tasks :
        Returns(t) /\ Ignored(result'[t].action) =>
            /\ UNCHANGED <<useServerTTS, selectedVoice, pilotMasterVolume,
                           mixerVolume, feedbackFile, audioPlayer, nSounding>>
            /\ result'[t].audioData = "nil"
                   => UNCHANGED <<lastServerAudioData, lastServerAudioMime>>
            /\ result'[t].audioData # "nil"
                   => /\ lastServerAudioData' = result'[t].audioData
                      /\ lastServerAudioMime' = result'[t].audioMime
            /\ status' = <<"Done">>
            /\ err'[t] = [code |-> 0, desc |-> <<>>]
            /\ pc'[t] = IF result'[t].audioData = "nil" THEN "done" ELSE "replyDelay"
            /\ Range(log'[t]) \subseteq {"req", "wait", "apply", "dwait"}]_vars

\* set_voice with an empty voice, applied when the voice was alloy
C13_Witness ==
    \E t \in Tasks :
        /\ pc[t] = "done"
        /\ result[t].action = Act("set_voice", "voice", StringV(Empty))
        /\ "apply" \in Range(log[t])
        /\ selectedVoice = Alloy

\* the body exchange t received is an envelope whose audio_b64 is present and
\* is not base64
Undecoded(t) == body[t].json /\ body[t].env.audio_b64 \notin {"nil", "QTE=", "QTI="}

\* C14: a dispatch whose final response is 2xx with an audio_b64 that is not
\* base64 succeeds with no audio: lastTranscript and lastReply are those of the
\* reply, status becomes "Done", the action (if any) is applied, the audio cache
\* keeps its entry, and the exchange schedules and starts no playback.
C14_UndecodedAudioIsNoAudio ==
    /\ [](\A t \in Tasks :
            Dispatched(t) /\ Answered(t) /\ http[t] \in 200..299 /\ Undecoded(t) =>
                /\ pc[t] = "done"
                /\ err[t] = [code |-> 0, desc |-> <<>>]
                /\ Range(log[t]) \subseteq {"req", "wait", "apply", "save_failed"}
                /\ result[t].action.name # "nil" => "apply" \in Range(log[t]))
    /\ [][\A t \in Tasks :
            Returns(t) /\ Undecoded(t)' =>
                /\ lastTranscript' = body'[t].env.transcript
                /\ lastReply' = body'[t].env.reply
                /\ status' = <<"Done">>
                /\ body'[t].env.action
                       = [name |-> "set_tts", key |-> "enabled",
                          val |-> [ty |-> "bool", b |-> FALSE, n |-> 0, s |-> <<>>]]
                     => useServerTTS' = FALSE
                /\ UNCHANGED <<lastServerAudioData, lastServerAudioMime,
                               audioPlayer, nSounding>>]_vars

\* C15: the request an exchange sends on its retry is the one it built before
\* its first attempt: from the first request to the answer to the second its
\* mode, voice, tts and audio part do not change, whatever another exchange
\* does to selectedVoice and useServerTTS during the back-off wait.
C15_RetrySendsSameRequest ==
    /\ [](\A t \in Tasks :
            pc[t] \in {"req1", "backoff", "req2"} =>
                /\ request[t].mode = "pathlight_dispatch_v1"
                /\ request[t].audio = t
                /\ request[t].tts \in {"0", "1"})
    /\ [][\A t \in Tasks :
            /\ pc[t] \in {"req1", "backoff", "req2"}
               /\ pc'[t] \in {"req1", "backoff", "req2"}
                   => request'[t] = request[t]
            /\ pc[t] = "backoff" /\ pc'[t] = "req2"
                   => Requests(t)' = Requests(t) + 1]_vars

\* the retry is out with voice nova and tts 1 while the voice is alloy by now
C15_Witness ==
    \E t \in Tasks :
        /\ pc[t] = "req2"
        /\ request[t].voice = Nova
        /\ selectedVoice = Alloy

\* C16: a playback that fails (the player cannot be created, or does not
\* start) does not abort the exchange. The exchange has set status "Done" and
\* lastTranscript / lastReply from the response when sendToBackend returned; the
\* step of the failing playback changes none of them nor anything the action
\* set, raises no error, and ends the exchange as done. When the failing
\* playback is the one of repeat_last, the reply's audio is cached and
\* scheduled in that same step.
C16_PlaybackFailureDoesNotAbort ==
    /\ [](\A t \in Tasks :
            "play" \in Range(log[t]) =>
                /\ pc[t] \in {"replyDelay", "done"}
                /\ err[t] = [code |-> 0, desc |-> <<>>])
    /\ [][\A t \in Tasks :
            /\ Returns(t) =>
                   /\ status' = <<"Done">>
                   /\ lastTranscript' = result'[t].transcript
                   /\ lastReply' = result'[t].reply
            /\ pc[t] = "replyDelay" /\ pc'[t] # "replyDelay"
               /\ ~audioPlayer'.playing =>
                   /\ pc'[t] = "done"
                   /\ UNCHANGED <<status, lastTranscript, lastReply, useServerTTS,
                                  selectedVoice, pilotMasterVolume, mixerVolume,
                                  feedbackFile, lastServerAudioData,
                                  lastServerAudioMime>>
            /\ pc[t] = "repeatDelay" /\ pc'[t] # "repeatDelay"
               /\ ~audioPlayer'.playing =>
                   /\ UNCHANGED <<status, lastTranscript, lastReply, useServerTTS,
                                  selectedVoice, pilotMasterVolume, mixerVolume,
                                  feedbackFile>>
                   /\ result[t].audioData # "nil" =>
                          /\ pc'[t] = "replyDelay"
                          /\ delay'[t] = 30
                          /\ lastServerAudioData' = result[t].audioData
                   /\ result[t].audioData = "nil" => pc'[t] = "done"]_vars

\* the player of a reply that set the voice to alloy could not be created: the
\* exchange is done, nothing else has run since, and the voice is alloy
C16_Witness ==
    \E t \in Tasks :
        /\ pc[t] = "done"
        /\ log[t] = <<"req", "apply", "dwait", "play", "play_error">>
        /\ result[t].action.name = "set_voice"
        /\ selectedVoice = Alloy
        /\ status = <<"Done">>
        /\ lastReply = result[t].reply
        /\ ~audioPlayer.playing

\* the step in which exchange t applies an action of one of the names
Applies(t, names) == Returns(t) /\ result'[t].action.name \in names

\* C17: useServerTTS changes only in a step that applies set_tts, selectedVoice
\* only in one that applies set_voice, pilotMasterVolume only in one that
\* applies adjust_volume or set_volume. Every step of a dispatch up to and
\* including its failure (stop, upload, retry wait, the catch) leaves
\* lastTranscript, lastReply, the audio cache and the three settings as they
\* were: of the published state it changes status, and isRecording when it stops
\* the recorder.
C17_SettingsChangeOnlyByActions ==
    [][/\ useServerTTS' # useServerTTS
            => \E t \in Tasks : Applies(t, {"set_tts"})
       /\ selectedVoice' # selectedVoice
            => \E t \in Tasks : Applies(t, {"set_voice"})
       /\ pilotMasterVolume' # pilotMasterVolume
            => \E t \in Tasks : Applies(t, {"adjust_volume", "set_volume"})
       /\ \A t \in Tasks :
            /\ pc[t] \in {"idle", "req1", "backoff", "req2"}
               /\ pc'[t] \in {"req1", "backoff", "req2", "failed"}
               /\ pc'[t] # pc[t] =>
                   /\ UNCHANGED <<lastTranscript, lastReply, lastServerAudioData,
                                  lastServerAudioMime, useServerTTS, selectedVoice,
                                  pilotMasterVolume>>
                   /\ pc[t] # "idle" => UNCHANGED isRecording
            /\ pc[t] # "failed" /\ pc'[t] = "failed"
                   => status' = <<"Dispatch error: ">> \o err'[t].desc]_vars

\* a dispatch failed after an earlier exchange set the voice and cached audio
C17_Witness ==
    \E t \in Tasks :
        /\ pc[t] = "failed"
        /\ selectedVoice = Alloy
        /\ lastReply = ReplyOk
        /\ lastServerAudioData = "A1"
        /\ status = <<"Dispatch error: ", "The request timed out.">>

\* C18: what an action sets is what the next dispatch sends. The step that
\* applies set_voice{v} with a non-empty string v leaves selectedVoice = v, and
\* the one that applies set_tts{enabled} leaves useServerTTS = enabled; the two
\* fields keep their values until a step applies such an action again; and the
\* request a dispatch builds carries voice = selectedVoice and tts = "1" when
\* useServerTTS holds, "0" when not, as they are when the dispatch starts.
C18_NextDispatchSendsSettings ==
    [][/\ \A t \in Tasks :
            LET a == result'[t].action IN
            /\ Returns(t) /\ a.name = "set_voice" /\ a.key = "voice"
               /\ a.val.ty = "string" /\ a.val.s # <<>>
                   => selectedVoice' = a.val.s
            /\ Returns(t) /\ a.name = "set_tts" /\ a.key = "enabled"
               /\ a.val.ty = "bool"
                   => useServerTTS' = a.val.b
            /\ pc[t] = "idle" /\ pc'[t] # "idle" =>
                   /\ request'[t].voice = selectedVoice
                   /\ request'[t].tts = (IF useServerTTS THEN "1" ELSE "0")
                   /\ request'[t].mode = "pathlight_dispatch_v1"
       /\ (\A t \in Tasks : ~Applies(t, {"set_voice"}))
            => selectedVoice' = selectedVoice
       /\ (\A t \in Tasks : ~Applies(t, {"set_tts"}))
            => useServerTTS' = useServerTTS]_vars

\* after the exchange that set the voice to alloy has returned, the next
\* dispatch is out with voice alloy
C18_Witness ==
    \E t, u \in Tasks :
        /\ pc[u] = "returned"
        /\ pc[t] = "req1"
        /\ request[t].voice = Alloy
        /\ request[t].tts = "1"

\* C19: a recording is dispatched at most once. The recording the recorder
\* holds has not been dispatched; the step that dispatches recording t is made
\* with the recorder holding t and releases it (and clears isRecording) before
\* the call suspends; an exchange never goes back to its first request, and
\* requests are issued only by that step and by the one retry. A step made with
\* no recorder held that is not the continuation of a suspended exchange is a
\* startRecording (it takes a recorder or reports the mic error), the end of a
\* sound, or it changes nothing: stopRecordingAndSend with no recorder changes
\* no state and issues no request.
C19_RecordingDispatchedOnce ==
    /\ [](recorder # 0 => pc[recorder] = "idle" /\ log[recorder] = <<>>)
    /\ [][/\ \A t \in Tasks :
               /\ pc[t] = "idle" /\ pc'[t] # "idle" =>
                      /\ recorder = t
                      /\ recorder' = 0
                      /\ isRecording' = FALSE
               /\ pc[t] # "idle" => pc'[t] # "idle"
               /\ pc'[t] = "req1" => pc[t] \in {"idle", "req1"}
               /\ Requests(t)' > Requests(t) =>
                      \/ pc[t] = "idle" /\ recorder = t
                      \/ pc[t] = "backoff"
          /\ recorder = 0 /\ pc' = pc =>
               \/ recorder' # 0 /\ status' = <<"Recording...">>
               \/ status' = <<"Mic error: ", "...">> /\ UNCHANGED <<isRecording, recorder, locals>>
               \/ /\ audioPlayer.playing /\ ~audioPlayer'.playing
                  /\ UNCHANGED <<status, isRecording, recorder, locals>>
               \/ UNCHANGED vars]_vars

\* an exchange is in its first request and no recorder is held: a second
\* stopRecordingAndSend made now returns at its guard
C19_Witness ==
    \E t \in Tasks :
        /\ pc[t] = "req1"
        /\ recorder = 0
        /\ ~isRecording
        /\ Requests(t) = 1

\* C20: in every state between two segments (between calls and at every
\* suspension point) isRecording holds exactly when a recorder is held. A
\* startRecording that fails leaves both as they were, one that succeeds holds
\* a new recorder with isRecording set, and a stopRecordingAndSend that finds a
\* recorder has cleared both by the time it suspends.
C20_RecordingIffRecorder ==
    /\ [](isRecording <=> recorder # 0)
    /\ [][/\ status' = <<"Mic error: ", "...">> /\ pc' = pc
               => UNCHANGED <<isRecording, recorder>>
          /\ recorder' \notin {0, recorder}
               => isRecording' /\ status' = <<"Recording...">>
          /\ \A t \in Tasks :
               pc[t] = "idle" /\ pc'[t] # "idle"
                   => ~isRecording' /\ recorder' = 0]_vars

\* a startRecording failed while a recording was being made: both are kept
C20_Witness ==
    /\ status = <<"Mic error: ", "...">>
    /\ isRecording
    /\ recorder # 0

====
